---- MODULE Spec2Model ----
(***************************************************************************)
(* Model of the hybrid retrieval engine of beating-heart-nostr:            *)
(* mcp_server.go (snippet cache, refresher, search handler, query matcher, *)
(* similarity query handler).                                              *)
(*                                                                         *)
(* Strings are sequences of one-character strings, so that lowercasing,    *)
(* trimming, splitting and substring search are computed and not assumed.  *)
(***************************************************************************)
EXTENDS Integers, Sequences, FiniteSets, TLC

VARIABLES
    cache,      \* codeSnippetCache: [events, lastUpdate]
    rwmutex,    \* codeSnippetCache.mutex: [readers, writer]
    snapshot,   \* history: the last (events, lastUpdate) pair written in full
    clock,      \* time.Now(), advanced by the refresh ticker
    refresher,  \* the goroutine running populateCodeSnippetCache
    readers,    \* goroutines inside searchCachedEvents, step by step
    req,        \* one searchCodeSnippetsHandler call
    dq,         \* one queryNostrDataHandler call
    mq,         \* one matchesQuery call: [pc, ev, query, result]
    ov,         \* one extractOverlap call: [pc, text, result]
    ing         \* the ingestion run: embeddingCounter, the files, the chunk loop

vars ==
    <<cache, rwmutex, snapshot, clock, refresher, readers, req, dq, mq, ov, ing>>

(***************************************************************************)
(* Go's strings package, on ASCII text.                                    *)
(***************************************************************************)
Uppers == <<"A","B","C","D","E","F","G","H","I","J","K","L","M",
            "N","O","P","Q","R","S","T","U","V","W","X","Y","Z">>
Lowers == <<"a","b","c","d","e","f","g","h","i","j","k","l","m",
            "n","o","p","q","r","s","t","u","v","w","x","y","z">>

\* unicode.IsSpace restricted to ASCII
Whitespace == {" ", "\t", "\n", "\r"}

ToLowerChar(c) ==
    IF \E i \in DOMAIN Uppers : Uppers[i] = c
    THEN Lowers[CHOOSE i \in DOMAIN Uppers : Uppers[i] = c]
    ELSE c

\* strings.ToLower
ToLower(s) == [i \in 1..Len(s) |-> ToLowerChar(s[i])]

\* strings.EqualFold
EqualFold(s, t) == ToLower(s) = ToLower(t)

\* strings.TrimSpace
TrimSpace(s) ==
    LET nonsp == {i \in 1..Len(s) : s[i] \notin Whitespace}
    IN  IF nonsp = {} THEN <<>>
        ELSE LET lo == CHOOSE i \in nonsp : \A j \in nonsp : i <= j
                 hi == CHOOSE i \in nonsp : \A j \in nonsp : i >= j
             IN  SubSeq(s, lo, hi)

\* strings.Contains
Contains(s, sub) ==
    \E i \in 0..(Len(s) - Len(sub)) : SubSeq(s, i + 1, i + Len(sub)) = sub

\* strings.HasPrefix
HasPrefix(s, p) == Len(s) >= Len(p) /\ SubSeq(s, 1, Len(p)) = p

\* strings.Fields: the maximal runs of non-whitespace characters, in order
RECURSIVE FieldsFrom(_, _, _)
FieldsFrom(s, i, cur) ==
    IF i > Len(s)
    THEN IF cur = <<>> THEN <<>> ELSE <<cur>>
    ELSE IF s[i] \in Whitespace
         THEN (IF cur = <<>> THEN <<>> ELSE <<cur>>) \o FieldsFrom(s, i + 1, <<>>)
         ELSE FieldsFrom(s, i + 1, Append(cur, s[i]))

Fields(s) == FieldsFrom(s, 1, <<>>)

(***************************************************************************)
(* nostr.Event: [id, pubkey, content, tags]; tags is a sequence of tags,    *)
(* each tag a sequence of strings (tag[1] the name, tag[2] the first        *)
(* value; Go's tag[0] and tag[1]).                                          *)
(***************************************************************************)
MinDirectLen == 2
MaxDirectLen == 10
MinWordLen == 2

\* the variant that looks at the content only
FieldContains_contentOnly(ev, needle) ==
    Contains(ToLower(ev.content), needle)

\* the test both loops of matchesQuery apply to one needle
FieldContains(ev, needle) ==
    \/ Contains(ToLower(ev.content), needle)
    \/ \E t \in DOMAIN ev.tags :
          /\ Len(ev.tags[t]) >= 2
          /\ Contains(ToLower(ev.tags[t][2]), needle)

matchesQuery_caseSensitive(ev, query) ==
    IF query = <<>> THEN TRUE
    ELSE LET q == TrimSpace(query)
             words == Fields(q)
         IN  \/ Len(q) >= MinDirectLen /\ Len(q) <= MaxDirectLen /\ FieldContains(ev, q)
             \/ words = <<>>
             \/ \E w \in DOMAIN words :
                   Len(words[w]) >= MinWordLen /\ FieldContains(ev, words[w])

matchesQuery(ev, query) ==
    IF query = <<>> THEN TRUE
    ELSE LET q == ToLower(TrimSpace(query))
             words == Fields(q)
         IN  IF /\ Len(q) >= MinDirectLen
                /\ Len(q) <= MaxDirectLen
                /\ FieldContains(ev, q)
             THEN TRUE
             ELSE IF words = <<>> THEN TRUE
             ELSE \E w \in DOMAIN words :
                     Len(words[w]) >= MinWordLen /\ FieldContains(ev, words[w])

(***************************************************************************)
(* searchCachedEvents, lines 375-413: the scan of the cached events.       *)
(***************************************************************************)
\* lines 383-394
LanguageMatches(ev, language) ==
    \E t \in DOMAIN ev.tags :
       /\ Len(ev.tags[t]) >= 2
       /\ ev.tags[t][1] = <<"l">>
       /\ EqualFold(ev.tags[t][2], language)

\* lines 383-404: the event passes every provided filter
CacheFilter(ev, language, author, query) ==
    /\ language # <<>> => LanguageMatches(ev, language)
    /\ ~(author # <<>> /\ ev.pubkey # author)
    /\ ~(query # <<>> /\ ~matchesQuery(ev, query))

RECURSIVE ScanFrom(_, _, _, _, _, _, _)
ScanFrom(events, i, matching, language, author, query, limit) ==
    IF i > Len(events) THEN matching
    ELSE IF CacheFilter(events[i], language, author, query)
         THEN LET more == Append(matching, events[i])
              IN  IF Len(more) >= limit THEN more
                  ELSE ScanFrom(events, i + 1, more, language, author, query, limit)
         ELSE ScanFrom(events, i + 1, matching, language, author, query, limit)

ScanCache(events, language, author, query, limit) ==
    IF Len(events) = 0 THEN <<>>
    ELSE ScanFrom(events, 1, <<>>, language, author, query, limit)

(***************************************************************************)
(* The snippet events and search arguments the model draws from.           *)
(***************************************************************************)
S_ndk == <<"n","d","k">>
S_go  == <<"g","o">>
S_Go  == <<"G","o">>
S_l   == <<"l">>
S_npub == <<"n","p","u","b">>

PkA == <<"a","1">>
PkB == <<"b","2">>
\* an npub that nip19.Decode accepts (it decodes to PkA) and one it rejects
NpubA   == S_npub \o <<"1","a">>
NpubBad == S_npub \o <<"1","?">>

Ev1 == [id |-> "e1", pubkey |-> PkA, content |-> <<"u","s","e","s"," ","N","D","K">>,
        tags |-> << <<S_l, S_go>> >>]
Ev2 == [id |-> "e2", pubkey |-> PkB, content |-> <<"f","m","t">>,
        tags |-> << <<<<"n","a","m","e">>, <<"x"," ","y">>>>, <<S_l, S_Go>> >>]

\* the kind-1337 events the relays hold
Events == {Ev1, Ev2}

(***************************************************************************)
(* Initial values of the components.                                       *)
(***************************************************************************)
CacheInit == [events |-> <<>>, lastUpdate |-> 0]
MutexInit == [readers |-> {}, writer |-> FALSE]
RefresherIdle == [pc |-> "idle", node |-> 0, newEvents |-> <<>>,
                  open |-> {}, expired |-> FALSE, skipped |-> FALSE]
ReaderIdle == [pc |-> "idle", language |-> <<>>, author |-> <<>>, query |-> <<>>,
               limit |-> 0, matching |-> <<>>]
ReqIdle == [pc |-> "idle", language |-> <<>>, rawAuthor |-> <<>>, author |-> <<>>,
            query |-> <<>>, limit |-> 0, cachedEvents |-> <<>>, branch |-> "",
            liveLimit |-> 0, node |-> 0, events |-> <<>>, eventIDs |-> {},
            open |-> 0, connects |-> 0, cacheReads |-> 0,
            result |-> <<>>, text |-> "", err |-> ""]
MqIdle == [pc |-> "idle", ev |-> Ev1, query |-> <<>>, result |-> FALSE]
DqIdle == [pc |-> "idle", query |-> [kind |-> "absent", value |-> <<>>],
           simArg |-> [kind |-> "absent", value |-> 0],
           numArg |-> [kind |-> "absent", value |-> 0],
           similarity |-> 0, numResults |-> 0, embedCalls |-> 0, indexCalls |-> 0,
           embedFailed |-> FALSE, indexFailed |-> FALSE,
           similarities |-> <<>>, err |-> "", text |-> ""]

(***************************************************************************)
(* matchesQuery as a function of its inputs.                               *)
(***************************************************************************)
MaxQueryLen == 3
QueryAlphabet == {"n", "D", " "}
LongWord == <<"x","y","z","1","2","3","l","o","n","g","w","o","r","d">>

RECURSIVE StringsUpTo(_)
StringsUpTo(n) ==
    IF n = 0 THEN {<<>>}
    ELSE LET shorter == StringsUpTo(n - 1)
         IN  shorter \cup {Append(s, c) : s \in shorter, c \in QueryAlphabet}

MatchQueries ==
    LET short == StringsUpTo(MaxQueryLen)
    IN  short \cup {LongWord, S_ndk, <<"N","D","K">>}
              \cup {LongWord \o <<" ">> \o s : s \in short}

MatchEvents ==
    Events \cup
    { [id |-> "m0", pubkey |-> PkA, content |-> <<"m","a","i","n">>,
       tags |-> << <<S_l>>, <<<<"f">>, <<"a">>, S_ndk>> >>],
      [id |-> "m1", pubkey |-> PkA, content |-> <<>>, tags |-> <<>>],
      [id |-> "m2", pubkey |-> PkA, content |-> <<"N","d">>, tags |-> <<>>],
      [id |-> "m3", pubkey |-> PkA, content |-> <<"n"," ","d">>,
       tags |-> << <<S_l, <<"D","N">>>> >>],
      [id |-> "m4", pubkey |-> PkA, content |-> <<"a">>,
       tags |-> << <<S_l, LongWord>> >>] }

MatchCall ==
    /\ mq.pc = "idle"
    /\ \E ev \in MatchEvents, q \in MatchQueries :
          mq' = [pc |-> "called", ev |-> ev, query |-> q, result |-> FALSE]
    /\ UNCHANGED <<cache, rwmutex, snapshot, clock, refresher, readers, req, dq, ov, ing>>

MatchReturn ==
    /\ mq.pc = "called"
    /\ mq' = [mq EXCEPT !.pc = "done", !.result = matchesQuery(mq.ev, mq.query)]
    /\ UNCHANGED <<cache, rwmutex, snapshot, clock, refresher, readers, req, dq, ov, ing>>

(***************************************************************************)
(* queryNostrDataHandler.  An argument of the request is absent, of        *)
(* another JSON type, or a value of the expected type.  The embedding and  *)
(* index collaborators fail or answer; similarity is kept in tenths.       *)
(***************************************************************************)
DefaultSimilarityTenths == 6
DefaultNumResults == 3

Absent == [kind |-> "absent", value |-> <<>>]
DqQueryArgs ==
    {Absent, [kind |-> "number", value |-> <<>>]}
      \cup {[kind |-> "string", value |-> v] : v \in {<<>>, S_ndk, <<" ">>}}
DqNumberArgs == {[kind |-> "absent", value |-> 0]}
                  \cup {[kind |-> "number", value |-> v] : v \in {0, 1, 10}}
SimilarityLists == {<<>>, <<"doc1">>, <<"doc1", "doc2">>}

NoSimilarText == "No similar documents found"

QueryCall ==
    /\ dq.pc = "idle"
    /\ \E q \in DqQueryArgs, sim \in DqNumberArgs, num \in DqNumberArgs :
          dq' = [DqIdle EXCEPT !.pc = "validate", !.query = q,
                               !.simArg = sim, !.numArg = num]
    /\ UNCHANGED <<cache, rwmutex, snapshot, clock, refresher, readers, req, mq, ov, ing>>

\* lines 110-123: the type assertion, the emptiness test and the defaults
QueryValidate_acceptEmpty ==
    /\ dq.pc = "validate"
    /\ IF dq.query.kind # "string"
       THEN dq' = [dq EXCEPT !.pc = "done", !.err = "query must be a non-empty string"]
       ELSE dq' = [dq EXCEPT
                !.pc = "embed",
                !.similarity = IF dq.simArg.kind = "number"
                               THEN dq.simArg.value ELSE DefaultSimilarityTenths,
                !.numResults = IF dq.numArg.kind = "number"
                               THEN dq.numArg.value ELSE DefaultNumResults]
    /\ UNCHANGED <<cache, rwmutex, snapshot, clock, refresher, readers, req, mq, ov, ing>>

QueryValidate ==
    /\ dq.pc = "validate"
    /\ IF dq.query.kind # "string" \/ dq.query.value = <<>>
       THEN dq' = [dq EXCEPT !.pc = "done", !.err = "query must be a non-empty string"]
       ELSE dq' = [dq EXCEPT
                !.pc = "embed",
                !.similarity = IF dq.simArg.kind = "number"
                               THEN dq.simArg.value ELSE DefaultSimilarityTenths,
                !.numResults = IF dq.numArg.kind = "number"
                               THEN dq.numArg.value ELSE DefaultNumResults]
    /\ UNCHANGED <<cache, rwmutex, snapshot, clock, refresher, readers, req, mq, ov, ing>>

\* lines 125-136: embeddings.CreateEmbedding fails or returns a vector
QueryEmbed ==
    /\ dq.pc = "embed"
    /\ \E ok \in BOOLEAN :
          dq' = [dq EXCEPT !.embedCalls = @ + 1,
                           !.embedFailed = ~ok,
                           !.pc = IF ok THEN "search" ELSE "done",
                           !.err = IF ok THEN "" ELSE "error creating embedding"]
    /\ UNCHANGED <<cache, rwmutex, snapshot, clock, refresher, readers, req, mq, ov, ing>>

\* lines 138-141: globalStore.SearchTopNSimilarities fails or returns a list
QuerySearch ==
    /\ dq.pc = "search"
    /\ \/ dq' = [dq EXCEPT !.indexCalls = @ + 1, !.pc = "done",
                            !.indexFailed = TRUE,
                            !.err = "error searching for similarities"]
       \/ \E sims \in SimilarityLists :
             dq' = [dq EXCEPT !.indexCalls = @ + 1, !.pc = "format",
                              !.similarities = sims]
    /\ UNCHANGED <<cache, rwmutex, snapshot, clock, refresher, readers, req, mq, ov, ing>>

\* lines 143-149
QueryFormat ==
    /\ dq.pc = "format"
    /\ dq' = [dq EXCEPT !.pc = "done",
                        !.text = IF Len(dq.similarities) = 0
                                 THEN NoSimilarText ELSE "context"]
    /\ UNCHANGED <<cache, rwmutex, snapshot, clock, refresher, readers, req, mq, ov, ing>>

\* the caller takes the result; the next request may come
QueryDone ==
    /\ dq.pc = "done"
    /\ dq' = DqIdle
    /\ UNCHANGED <<cache, rwmutex, snapshot, clock, refresher, readers, req, mq, ov, ing>>

(***************************************************************************)
(* populateCodeSnippetCache / updateCodeSnippetCache, one step per         *)
(* blocking call.  Every modelled event is of kind 1337, so each passes    *)
(* the cycle's filter.                                                     *)
(***************************************************************************)
MaxCycles == 2
MaxNew == 2

cacheRelays == <<"wss://relay.damus.io", "wss://relay.nostr.band",
                 "wss://nos.lol", "wss://relay.snort.social">>

\* the for loop of line 270 moves to the next relay, or leaves the loop
RefreshNextRelay(r) ==
    IF r.node < Len(cacheRelays)
    THEN [r EXCEPT !.pc = "connect", !.node = @ + 1]
    ELSE [r EXCEPT !.pc = "update"]

\* lines 237, 243-244 and 251-269: the initial call, or a tick of the ticker
RefreshStart ==
    /\ refresher.pc = "idle"
    /\ clock < MaxCycles
    /\ clock' = clock + 1
    /\ refresher' = [RefresherIdle EXCEPT !.pc = "connect", !.node = 1]
    /\ UNCHANGED <<cache, rwmutex, snapshot, readers, req, dq, mq, ov, ing>>

\* line 251: the 30 s deadline of the cycle's context passes
RefreshDeadline ==
    /\ refresher.pc \in {"connect", "subscribe", "stream"}
    /\ ~refresher.expired
    /\ refresher' = [refresher EXCEPT !.expired = TRUE]
    /\ UNCHANGED <<cache, rwmutex, snapshot, clock, readers, req, dq, mq, ov, ing>>

\* the variant that gives the cycle up at the first relay it cannot reach
RefreshConnect_abortOnFailure ==
    /\ refresher.pc = "connect"
    /\ \/ /\ ~refresher.expired
          /\ refresher' = [refresher EXCEPT !.pc = "subscribe",
                                            !.open = @ \cup {refresher.node}]
       \/ refresher' = [refresher EXCEPT !.pc = "update", !.skipped = TRUE]
    /\ UNCHANGED <<cache, rwmutex, snapshot, clock, readers, req, dq, mq, ov, ing>>

\* lines 271-275: nostr.RelayConnect; it fails once the context has expired
RefreshConnect ==
    /\ refresher.pc = "connect"
    /\ \/ /\ ~refresher.expired
          /\ refresher' = [refresher EXCEPT !.pc = "subscribe",
                                            !.open = @ \cup {refresher.node}]
       \/ refresher' = RefreshNextRelay([refresher EXCEPT !.skipped = TRUE])
    /\ UNCHANGED <<cache, rwmutex, snapshot, clock, readers, req, dq, mq, ov, ing>>

\* lines 278-283: relay.Subscribe; on failure the relay is closed
RefreshSubscribe ==
    /\ refresher.pc = "subscribe"
    /\ \/ /\ ~refresher.expired
          /\ refresher' = [refresher EXCEPT !.pc = "stream"]
       \/ refresher' = RefreshNextRelay(
                          [refresher EXCEPT !.open = @ \ {refresher.node},
                                            !.skipped = TRUE])
    /\ UNCHANGED <<cache, rwmutex, snapshot, clock, readers, req, dq, mq, ov, ing>>

\* lines 286-288: one event arrives on sub.Events
RefreshRecv ==
    /\ refresher.pc = "stream"
    /\ Len(refresher.newEvents) < MaxNew
    /\ \E ev \in Events :
          refresher' = [refresher EXCEPT !.newEvents = Append(@, ev)]
    /\ UNCHANGED <<cache, rwmutex, snapshot, clock, readers, req, dq, mq, ov, ing>>

\* the variant that throws away what it collected when the deadline ends
\* the stream
RefreshStreamEnd_dropOnDeadline ==
    /\ refresher.pc = "stream"
    /\ refresher' = RefreshNextRelay(
                       [refresher EXCEPT
                           !.open = @ \ {refresher.node},
                           !.newEvents = IF refresher.expired THEN <<>> ELSE @])
    /\ UNCHANGED <<cache, rwmutex, snapshot, clock, readers, req, dq, mq, ov, ing>>

\* the variant in which only the relay can end the stream
RefreshStreamEnd_relayOnly ==
    /\ refresher.pc = "stream"
    /\ ~refresher.expired
    /\ refresher' = RefreshNextRelay(
                       [refresher EXCEPT !.open = @ \ {refresher.node}])
    /\ UNCHANGED <<cache, rwmutex, snapshot, clock, readers, req, dq, mq, ov, ing>>

\* lines 286, 291-292: sub.Events is closed (by the relay going away or by
\* the deadline); the subscription and the relay are closed
RefreshStreamEnd ==
    /\ refresher.pc = "stream"
    /\ refresher' = RefreshNextRelay(
                       [refresher EXCEPT !.open = @ \ {refresher.node}])
    /\ UNCHANGED <<cache, rwmutex, snapshot, clock, readers, req, dq, mq, ov, ing>>

\* lines 296 and 302-304: nothing collected, nothing written
RefreshUpdate_alwaysInstall ==
    /\ refresher.pc = "update"
    /\ refresher' = [refresher EXCEPT !.pc = "lock"]
    /\ UNCHANGED <<cache, rwmutex, snapshot, clock, readers, req, dq, mq, ov, ing>>

RefreshUpdate ==
    /\ refresher.pc = "update"
    /\ refresher' = [refresher EXCEPT
                        !.pc = IF Len(refresher.newEvents) > 0 THEN "lock" ELSE "idle"]
    /\ UNCHANGED <<cache, rwmutex, snapshot, clock, readers, req, dq, mq, ov, ing>>

\* line 297: mutex.Lock() waits for the readers and for any writer
RefreshLock_ignoreReaders ==
    /\ refresher.pc = "lock"
    /\ ~rwmutex.writer
    /\ rwmutex' = [rwmutex EXCEPT !.writer = TRUE]
    /\ refresher' = [refresher EXCEPT !.pc = "write_events"]
    /\ UNCHANGED <<cache, snapshot, clock, readers, req, dq, mq, ov, ing>>

RefreshLock ==
    /\ refresher.pc = "lock"
    /\ rwmutex.readers = {}
    /\ ~rwmutex.writer
    /\ rwmutex' = [rwmutex EXCEPT !.writer = TRUE]
    /\ refresher' = [refresher EXCEPT !.pc = "write_events"]
    /\ UNCHANGED <<cache, snapshot, clock, readers, req, dq, mq, ov, ing>>

\* line 298
RefreshWriteEvents ==
    /\ refresher.pc = "write_events"
    /\ cache' = [cache EXCEPT !.events = refresher.newEvents]
    /\ refresher' = [refresher EXCEPT !.pc = "write_time"]
    /\ UNCHANGED <<rwmutex, snapshot, clock, readers, req, dq, mq, ov, ing>>

\* line 299; the new snapshot is complete
RefreshWriteTime ==
    /\ refresher.pc = "write_time"
    /\ cache' = [cache EXCEPT !.lastUpdate = clock]
    /\ snapshot' = <<cache.events, clock>>
    /\ refresher' = [refresher EXCEPT !.pc = "unlock"]
    /\ UNCHANGED <<rwmutex, clock, readers, req, dq, mq, ov, ing>>

\* the variant that returns with the write lock still held
RefreshUnlock_forgotten ==
    /\ refresher.pc = "unlock"
    /\ refresher' = [refresher EXCEPT !.pc = "idle"]
    /\ UNCHANGED <<cache, rwmutex, snapshot, clock, readers, req, dq, mq, ov, ing>>

\* line 300
RefreshUnlock ==
    /\ refresher.pc = "unlock"
    /\ rwmutex' = [rwmutex EXCEPT !.writer = FALSE]
    /\ refresher' = [refresher EXCEPT !.pc = "idle"]
    /\ UNCHANGED <<cache, snapshot, clock, readers, req, dq, mq, ov, ing>>

(***************************************************************************)
(* searchCachedEvents as its callers' goroutines run it, concurrently with *)
(* the refresher.                                                          *)
(***************************************************************************)
Readers == {"r1", "r2"}
ReaderArgs == {[language |-> S_Go, query |-> <<>>, limit |-> 2],
               [language |-> <<>>, query |-> S_ndk, limit |-> 1]}

\* the call, and line 371: mutex.RLock() waits while a writer holds the lock
ReadRLock(r) ==
    /\ readers[r].pc = "idle"
    /\ ~rwmutex.writer
    /\ rwmutex' = [rwmutex EXCEPT !.readers = @ \cup {r}]
    /\ \E a \in ReaderArgs :
          readers' = [readers EXCEPT ![r] =
                        [ReaderIdle EXCEPT !.pc = "scan", !.language = a.language,
                                           !.query = a.query, !.limit = a.limit]]
    /\ UNCHANGED <<cache, snapshot, clock, refresher, req, dq, mq, ov, ing>>

\* lines 375-411: the scan of the cache as it is at this moment
ReadScan(r) ==
    /\ readers[r].pc = "scan"
    /\ readers' = [readers EXCEPT
                      ![r].pc = "runlock",
                      ![r].matching = ScanCache(cache.events, readers[r].language,
                                                readers[r].author, readers[r].query,
                                                readers[r].limit)]
    /\ UNCHANGED <<cache, rwmutex, snapshot, clock, refresher, req, dq, mq, ov, ing>>

\* lines 372 and 413: the deferred RUnlock, then the return
ReadRUnlock(r) ==
    /\ readers[r].pc = "runlock"
    /\ rwmutex' = [rwmutex EXCEPT !.readers = @ \ {r}]
    /\ readers' = [readers EXCEPT ![r] = ReaderIdle]
    /\ UNCHANGED <<cache, snapshot, clock, refresher, req, dq, mq, ov, ing>>

(***************************************************************************)
(* searchCodeSnippetsHandler and the two live searches, one step per       *)
(* cache access and per blocking relay call.  The handler's goroutine      *)
(* takes the read lock for the whole of a scan (lines 371-372) and the     *)
(* refresher the write lock for the whole of a replacement (lines          *)
(* 297-300), so here a scan and a refresh cycle are each one step.         *)
(***************************************************************************)
MaxLimit == 2
DefaultLimit == 10

Languages == {<<>>, S_Go}
\* the author argument: absent, an npub of PkA, an npub that does not decode
\* (a raw key takes the path of the decoded npub from line 336 on)
Authors == {<<>>, NpubA, NpubBad}
Queries == {<<>>, S_ndk}
\* the limit argument: absent, or a number (limit = int(limitVal)); a
\* negative limit takes the path of 0, as line 339 holds for both
LimitArgs == {[kind |-> "absent", value |-> 0]}
               \cup {[kind |-> "number", value |-> v] : v \in 0..MaxLimit}

NoSnippetsText == "No code snippets found matching the criteria."
NoFilterError == "at least one of 'language', 'author', or 'query' must be provided"

searchRelays == <<"wss://relay.damus.io", "wss://purplepag.es", "wss://relay.current.fyi",
                  "wss://relay.nostr.band", "wss://nos.lol", "wss://relay.snort.social">>
queryOnlyRelays == <<"wss://relay.damus.io", "wss://purplepag.es">>

\* nip19.Decode (line 327) on the modelled inputs
Nip19Decode(s) ==
    IF s = NpubA THEN [ok |-> TRUE, value |-> PkA] ELSE [ok |-> FALSE, value |-> <<>>]

\* lines 326-333: an npub is decoded; one that fails to decode is kept
ProcessAuthor_clearOnError(author) ==
    IF author # <<>> /\ HasPrefix(author, S_npub)
    THEN IF Nip19Decode(author).ok THEN Nip19Decode(author).value ELSE <<>>
    ELSE author

ProcessAuthor(author) ==
    IF author # <<>> /\ HasPrefix(author, S_npub)
    THEN IF Nip19Decode(author).ok THEN Nip19Decode(author).value ELSE author
    ELSE author

\* line 321
NoFilter_queryInverted(language, author, query) ==
    language = <<>> /\ author = <<>> /\ query # <<>>

NoFilter(language, author, query) == language = <<>> /\ author = <<>> /\ query = <<>>

\* lines 346 and 419: query is the only filter provided
QueryOnly(language, author, query) == query # <<>> /\ language = <<>> /\ author = <<>>

\* the variant that sends the language as the caller wrote it
TargetedFilterMatch_rawLanguage(ev, language, author) ==
    /\ language # <<>> =>
          \E t \in DOMAIN ev.tags :
             /\ Len(ev.tags[t]) >= 2
             /\ ev.tags[t][1] = <<"l">>
             /\ ev.tags[t][2] = language
    /\ author # <<>> => ev.pubkey = author

\* lines 433-447: the events a relay may send on a subscription with the
\* filter of searchRelayEvents (kind 1337, '#l' = lowercased language,
\* authors = author); tag and author values are compared exactly
TargetedFilterMatch(ev, language, author) ==
    /\ language # <<>> =>
          \E t \in DOMAIN ev.tags :
             /\ Len(ev.tags[t]) >= 2
             /\ ev.tags[t][1] = <<"l">>
             /\ ev.tags[t][2] = ToLower(language)
    /\ author # <<>> => ev.pubkey = author

\* lines 340, 348, 352 and 359-364: the events handed to the formatter
ReturnedEvents(r) ==
    IF r.branch = "sufficient" THEN r.cachedEvents
    ELSE IF r.branch = "merge"
    THEN LET combinedEvents == r.cachedEvents \o r.events
         IN  IF Len(combinedEvents) > r.limit
             THEN SubSeq(combinedEvents, 1, r.limit)
             ELSE combinedEvents
    ELSE r.events

\* the live search returns; formatCodeSnippetResults, lines 496-560, gives
\* the empty-result text or the report, and never an error
SearchReturn(r) ==
    LET events == ReturnedEvents(r)
    IN  [r EXCEPT !.pc = "done", !.node = 0, !.result = events,
                  !.text = IF Len(events) = 0 THEN NoSnippetsText ELSE "Found"]

\* lines 308-333: arguments, validation, author decoding
SearchStart ==
    /\ req.pc = "idle"
    /\ \E language \in Languages, author \in Authors, query \in Queries,
          lim \in LimitArgs :
          LET limit == IF lim.kind = "number" THEN lim.value ELSE DefaultLimit
              r == [ReqIdle EXCEPT !.language = language, !.rawAuthor = author,
                                   !.author = author, !.query = query,
                                   !.limit = limit]
          IN  IF NoFilter(language, author, query)
              THEN req' = [r EXCEPT !.pc = "done", !.err = NoFilterError]
              ELSE req' = [r EXCEPT !.pc = "lookup",
                                    !.author = ProcessAuthor(author)]
    /\ UNCHANGED <<cache, rwmutex, snapshot, clock, refresher, readers, dq, mq, ov, ing>>

\* lines 336-356: the first cache lookup and the choice of the branch
SearchLookup ==
    /\ req.pc = "lookup"
    /\ LET cachedEvents == ScanCache(cache.events, req.language, req.author,
                                     req.query, req.limit)
           qonly == QueryOnly(req.language, req.author, req.query)
           r == [req EXCEPT !.cachedEvents = cachedEvents, !.cacheReads = @ + 1]
       IN  IF Len(cachedEvents) >= req.limit
           THEN req' = SearchReturn([r EXCEPT !.branch = "sufficient"])
           ELSE IF Len(cachedEvents) = 0
           THEN IF qonly
                THEN req' = [r EXCEPT !.pc = "qo_recheck", !.branch = "query_only",
                                      !.liveLimit = req.limit]
                ELSE req' = [r EXCEPT !.pc = "tg_connect", !.branch = "targeted",
                                      !.liveLimit = req.limit, !.node = 1]
           ELSE \* searchRelayEvents(neededEvents), which line 419 may divert
                IF qonly
                THEN req' = [r EXCEPT !.pc = "qo_recheck", !.branch = "merge",
                                      !.liveLimit = req.limit - Len(cachedEvents)]
                ELSE req' = [r EXCEPT !.pc = "tg_connect", !.branch = "merge",
                                      !.liveLimit = req.limit - Len(cachedEvents),
                                      !.node = 1]
    /\ UNCHANGED <<cache, rwmutex, snapshot, clock, refresher, readers, dq, mq, ov, ing>>

\* the variant that goes to the relays without looking at the cache again
QueryOnlyRecheck_skipped ==
    /\ req.pc = "qo_recheck"
    /\ req' = [req EXCEPT !.pc = "qo_connect", !.node = 1, !.cacheReads = @ + 1]
    /\ UNCHANGED <<cache, rwmutex, snapshot, clock, refresher, readers, dq, mq, ov, ing>>

\* searchByQueryOnly, lines 660-663: the cache is scanned again
QueryOnlyRecheck ==
    /\ req.pc = "qo_recheck"
    /\ LET cachedResults == ScanCache(cache.events, <<>>, <<>>, req.query,
                                      req.liveLimit)
           r == [req EXCEPT !.cacheReads = @ + 1]
       IN  IF Len(cachedResults) > 0
           THEN req' = SearchReturn([r EXCEPT !.events = cachedResults])
           ELSE req' = [r EXCEPT !.pc = "qo_connect", !.node = 1]
    /\ UNCHANGED <<cache, rwmutex, snapshot, clock, refresher, readers, dq, mq, ov, ing>>

\* the for loop of line 682 continues with the next relay, or ends
QueryOnlyNextRelay(r) ==
    IF r.node < Len(queryOnlyRelays)
    THEN [r EXCEPT !.pc = "qo_connect", !.node = @ + 1]
    ELSE SearchReturn(r)

\* lines 719-725: Unsub, Close, and the test that ends the loop
QueryOnlyCloseRelay(r) ==
    LET c == [r EXCEPT !.open = @ - 1]
    IN  IF Len(c.events) >= c.liveLimit
        THEN SearchReturn(c)
        ELSE QueryOnlyNextRelay(c)

\* lines 683-686
QueryOnlyConnect ==
    /\ req.pc = "qo_connect"
    /\ \/ req' = [req EXCEPT !.pc = "qo_subscribe", !.connects = @ + 1,
                            !.open = @ + 1]
       \/ req' = QueryOnlyNextRelay([req EXCEPT !.connects = @ + 1])
    /\ UNCHANGED <<cache, rwmutex, snapshot, clock, refresher, readers, dq, mq, ov, ing>>

\* lines 689-697
QueryOnlySubscribe ==
    /\ req.pc = "qo_subscribe"
    /\ \/ req' = [req EXCEPT !.pc = "qo_stream"]
       \/ req' = QueryOnlyNextRelay([req EXCEPT !.open = @ - 1])
    /\ UNCHANGED <<cache, rwmutex, snapshot, clock, refresher, readers, dq, mq, ov, ing>>

\* the variant that does not skip the ids it has seen
QueryOnlyRecv_noDedup ==
    /\ req.pc = "qo_stream"
    /\ Len(req.events) < MaxNew
    /\ \E ev \in Events :
          IF matchesQuery(ev, req.query)
          THEN LET r == [req EXCEPT !.events = Append(@, ev),
                                    !.eventIDs = @ \cup {ev.id}]
               IN  IF Len(r.events) >= r.liveLimit
                   THEN req' = QueryOnlyCloseRelay(r)
                   ELSE req' = r
          ELSE req' = req
    /\ UNCHANGED <<cache, rwmutex, snapshot, clock, refresher, readers, dq, mq, ov, ing>>

\* lines 700-716: one event arrives
QueryOnlyRecv ==
    /\ req.pc = "qo_stream"
    /\ Len(req.events) < MaxNew
    /\ \E ev \in Events :
          IF ev.id \in req.eventIDs
          THEN req' = req
          ELSE IF matchesQuery(ev, req.query)
          THEN LET r == [req EXCEPT !.events = Append(@, ev),
                                    !.eventIDs = @ \cup {ev.id}]
               IN  IF Len(r.events) >= r.liveLimit
                   THEN req' = QueryOnlyCloseRelay(r)
                   ELSE req' = r
          ELSE req' = req
    /\ UNCHANGED <<cache, rwmutex, snapshot, clock, refresher, readers, dq, mq, ov, ing>>

\* line 700: sub.Events is closed, by the relay or by the 5 s deadline
QueryOnlyStreamEnd ==
    /\ req.pc = "qo_stream"
    /\ req' = QueryOnlyCloseRelay(req)
    /\ UNCHANGED <<cache, rwmutex, snapshot, clock, refresher, readers, dq, mq, ov, ing>>

\* the for loop of line 451 continues with the next relay, or ends
TargetedNextRelay(r) ==
    IF r.node < Len(searchRelays)
    THEN [r EXCEPT !.pc = "tg_connect", !.node = @ + 1]
    ELSE SearchReturn(r)

\* the variant that goes on to the next relay whatever it has collected
TargetedCloseRelay_ignoreLimit(r) == TargetedNextRelay([r EXCEPT !.open = @ - 1])

\* lines 482-489
TargetedCloseRelay(r) ==
    LET c == [r EXCEPT !.open = @ - 1]
    IN  IF Len(c.events) >= c.liveLimit
        THEN SearchReturn(c)
        ELSE TargetedNextRelay(c)

\* lines 452-456
TargetedConnect_abortOnFailure ==
    /\ req.pc = "tg_connect"
    /\ \/ req' = [req EXCEPT !.pc = "tg_subscribe", !.connects = @ + 1,
                            !.open = @ + 1]
       \/ req' = SearchReturn([req EXCEPT !.connects = @ + 1])
    /\ UNCHANGED <<cache, rwmutex, snapshot, clock, refresher, readers, dq, mq, ov, ing>>

TargetedConnect ==
    /\ req.pc = "tg_connect"
    /\ \/ req' = [req EXCEPT !.pc = "tg_subscribe", !.connects = @ + 1,
                            !.open = @ + 1]
       \/ req' = TargetedNextRelay([req EXCEPT !.connects = @ + 1])
    /\ UNCHANGED <<cache, rwmutex, snapshot, clock, refresher, readers, dq, mq, ov, ing>>

\* lines 459-467: on failure the loop continues and the relay stays open
TargetedSubscribe ==
    /\ req.pc = "tg_subscribe"
    /\ \/ req' = [req EXCEPT !.pc = "tg_stream"]
       \/ req' = TargetedNextRelay(req)
    /\ UNCHANGED <<cache, rwmutex, snapshot, clock, refresher, readers, dq, mq, ov, ing>>

\* lines 470-480: one event arrives
TargetedRecv ==
    /\ req.pc = "tg_stream"
    /\ Len(req.events) < MaxNew
    /\ \E ev \in Events :
          /\ TargetedFilterMatch(ev, req.language, req.author)
          /\ LET r == IF req.query = <<>> \/ matchesQuery(ev, req.query)
                      THEN [req EXCEPT !.events = Append(@, ev)]
                      ELSE req
             IN  IF Len(r.events) >= r.liveLimit
                 THEN req' = TargetedCloseRelay(r)
                 ELSE req' = r
    /\ UNCHANGED <<cache, rwmutex, snapshot, clock, refresher, readers, dq, mq, ov, ing>>

\* append(backing[:k], more...) when backing[:k] shares the array of backing:
\* the elements after k are overwritten as far as the capacity reaches, and
\* nothing is written when the array has to grow
AppendInPlace(backing, k, more) ==
    IF k + Len(more) > Len(backing) THEN backing
    ELSE [j \in DOMAIN backing |->
            IF j > k /\ j <= k + Len(more) THEN more[j - k] ELSE backing[j]]

\* the variant in which the cache matches are a slice of the cache's own
\* list, so that the append of line 360 writes into it
TargetedStreamEnd_appendIntoCache ==
    /\ req.pc = "tg_stream"
    /\ req' = TargetedCloseRelay(req)
    /\ cache' = IF req'.pc = "done" /\ req.branch = "merge"
                THEN [cache EXCEPT !.events =
                         AppendInPlace(@, Len(req.cachedEvents), req'.events)]
                ELSE cache
    /\ UNCHANGED <<rwmutex, snapshot, clock, refresher, readers, dq, mq, ov, ing>>

\* line 470: sub.Events is closed, by the relay or by the 10 s deadline
TargetedStreamEnd ==
    /\ req.pc = "tg_stream"
    /\ req' = TargetedCloseRelay(req)
    /\ UNCHANGED <<cache, rwmutex, snapshot, clock, refresher, readers, dq, mq, ov, ing>>

\* the caller takes the result; the next request may come
SearchDone ==
    /\ req.pc = "done"
    /\ req' = ReqIdle
    /\ UNCHANGED <<cache, rwmutex, snapshot, clock, refresher, readers, dq, mq, ov, ing>>

RECURSIVE SeqsUpTo(_, _)
SeqsUpTo(S, n) ==
    IF n = 0 THEN {<<>>}
    ELSE LET shorter == SeqsUpTo(S, n - 1)
         IN  shorter \cup {Append(s, e) : s \in shorter, e \in S}

\* updateCodeSnippetCache, lines 249-305, as one step of the refresher
RefreshCycle ==
    /\ clock < MaxCycles
    /\ clock' = clock + 1
    /\ \E newEvents \in SeqsUpTo(Events, MaxNew) :
          IF Len(newEvents) > 0
          THEN /\ cache' = [events |-> newEvents, lastUpdate |-> clock']
               /\ snapshot' = <<newEvents, clock'>>
          ELSE UNCHANGED <<cache, snapshot>>
    /\ UNCHANGED <<rwmutex, refresher, readers, req, dq, mq, ov, ing>>

(***************************************************************************)
(* The chunk builder of main.go: extractOverlap.                           *)
(***************************************************************************)

\* the characters of the class [.!?] of sentenceRegex
SentenceEnders == {".", "!", "?"}

\* the characters of the class \s of sentenceRegex
RegexpSpace == {" ", "\t", "\n", "\r", "\f"}

\* the last index of the run of \s characters that starts at index i
RECURSIVE SpaceRunEnd(_, _)
SpaceRunEnd(text, i) ==
    IF i < Len(text) /\ text[i + 1] \in RegexpSpace
    THEN SpaceRunEnd(text, i + 1)
    ELSE i

\* sentenceRegex.Split(text, -1): the pieces between the leftmost, longest,
\* non-overlapping matches of [.!?]\s+, the piece after the last match
\* included even when it is empty
RECURSIVE SplitFrom(_, _, _, _)
SplitFrom(text, i, beg, acc) ==
    IF i > Len(text)
    THEN Append(acc, SubSeq(text, beg, Len(text)))
    ELSE IF /\ text[i] \in SentenceEnders
            /\ i < Len(text)
            /\ text[i + 1] \in RegexpSpace
         THEN LET matchEnd == SpaceRunEnd(text, i + 1)
              IN  SplitFrom(text, matchEnd + 1, matchEnd + 1,
                            Append(acc, SubSeq(text, beg, i - 1)))
         ELSE SplitFrom(text, i + 1, beg, acc)

RegexpSplit(text) == SplitFrom(text, 1, 1, <<>>)

\* a last sentence shorter than this brings the sentence before it along
ShortSentenceLen == 20

\* the variant that ends a single sentence with a period as well
extractOverlap_appendPeriod(text) ==
    LET sentences == RegexpSplit(text)
        n == Len(sentences)
    IN  IF n <= 1
        THEN text \o <<".">>
        ELSE IF Len(sentences[n]) < ShortSentenceLen /\ n > 2
             THEN sentences[n - 1] \o <<".", " ">> \o sentences[n] \o <<".">>
             ELSE sentences[n] \o <<".">>

\* extractOverlap, lines 478-490
extractOverlap(text) ==
    LET sentences == RegexpSplit(text)
        n == Len(sentences)
    IN  IF n <= 1
        THEN text
        ELSE IF Len(sentences[n]) < ShortSentenceLen /\ n > 2
             THEN sentences[n - 1] \o <<".", " ">> \o sentences[n] \o <<".">>
             ELSE sentences[n] \o <<".">>

\* the texts of preceding chunks: up to MaxPieces pieces put end to end
MaxPieces == 5

S_Ok == <<"O", "k">>
S_19 == <<"n", "i", "n", "e", "t", "e", "e", "n", " ", "l", "e", "t", "t",
          "e", "r", "s", " ", "x", "y">>
OverlapPieces == {S_Ok, S_19, <<".", " ">>, <<".">>, <<" ">>, <<"?", "\n", " ">>}

RECURSIVE Concat(_)
Concat(pieces) ==
    IF pieces = <<>> THEN <<>> ELSE Head(pieces) \o Concat(Tail(pieces))

\* "This is one. This is two. Ok."
ExampleText ==
    <<"T", "h", "i", "s", " ", "i", "s", " ", "o", "n", "e", ".", " ",
      "T", "h", "i", "s", " ", "i", "s", " ", "t", "w", "o", ".", " ",
      "O", "k", ".">>

\* "This is two. Ok."
ExampleOverlap ==
    <<"T", "h", "i", "s", " ", "i", "s", " ", "t", "w", "o", ".", " ",
      "O", "k", ".">>

OverlapTexts ==
    {Concat(p) : p \in SeqsUpTo(OverlapPieces, MaxPieces)} \cup {ExampleText}

OvIdle == [pc |-> "idle", text |-> <<>>, result |-> <<>>]

\* processMarkdownChunks hands the previous chunk's content over, line 424
OverlapCall ==
    /\ ov.pc = "idle"
    /\ \E text \in OverlapTexts :
          ov' = [pc |-> "called", text |-> text, result |-> <<>>]
    /\ UNCHANGED <<cache, rwmutex, snapshot, clock, refresher, readers, req,
                   dq, mq, ing>>

OverlapReturn ==
    /\ ov.pc = "called"
    /\ ov' = [ov EXCEPT !.pc = "done", !.result = extractOverlap(ov.text)]
    /\ UNCHANGED <<cache, rwmutex, snapshot, clock, refresher, readers, req,
                   dq, mq, ing>>

(***************************************************************************)
(* The ingestion run of main.go: processDataDirectory walks the enabled    *)
(* repositories, processFile reads each markdown file and                  *)
(* processMarkdownChunks mints one id per chunk from embeddingCounter.     *)
(***************************************************************************)

HasSuffix(s, suffix) ==
    /\ Len(suffix) <= Len(s)
    /\ SubSeq(s, Len(s) - Len(suffix) + 1, Len(s)) = suffix

TrimSuffix(s, suffix) ==
    IF HasSuffix(s, suffix) THEN SubSeq(s, 1, Len(s) - Len(suffix)) ELSE s

S_md == <<".", "m", "d">>
S_chunk == <<"-", "c", "h", "u", "n", "k", "-">>

\* extractNipIdentifier, lines 493-495
extractNipIdentifier(filename) == TrimSuffix(filename, S_md)

Digits == <<"0", "1", "2", "3", "4", "5", "6", "7", "8", "9">>

\* the verb %d of fmt.Sprintf, for a counter that is never negative
RECURSIVE FormatInt(_)
FormatInt(n) ==
    IF n < 10 THEN <<Digits[n + 1]>>
    ELSE FormatInt(n \div 10) \o <<Digits[(n % 10) + 1]>>

\* fmt.Sprintf("%s-chunk-%d", nipNumber, embeddingCounter), line 414
ChunkId(nipNumber, counter) == nipNumber \o S_chunk \o FormatInt(counter)

\* the markdown parser finds up to MaxChunks chunks in a file
MaxChunks == 2

F_01 == <<"0", "1", ".", "m", "d">>
F_01c == <<"0", "1", "-", "c", "h", "u", "n", "k", "-", "1", ".", "m", "d">>
F_txt == <<"a", ".", "t", "x", "t">>

\* repos.json, each repository with the files its directory walk visits
RepoConfigs ==
    {<<>>,
     <<[enabled |-> TRUE, files |-> <<F_01, F_01c>>]>>,
     <<[enabled |-> FALSE, files |-> <<F_01>>],
       [enabled |-> TRUE, files |-> <<F_txt, F_01>>]>>,
     <<[enabled |-> TRUE, files |-> <<F_01>>],
       [enabled |-> TRUE, files |-> <<F_01>>]>>,
     <<[enabled |-> TRUE, files |-> <<F_01c, F_01>>],
       [enabled |-> TRUE, files |-> <<F_01>>]>>}

IngIdle ==
    [pc |-> "idle", repos |-> <<>>, repo |-> 0, file |-> 0,
     nipNumber |-> <<>>, nChunks |-> 0, i |-> 0,
     embeddingCounter |-> 0, id |-> <<>>, ids |-> <<>>,
     outcome |-> "none", err |-> FALSE]

\* processDataDirectory, lines 332-336: no repository is an error
IngestStart ==
    /\ ing.pc = "idle"
    /\ \E repos \in RepoConfigs :
          IF Len(repos) = 0
          THEN ing' = [ing EXCEPT !.pc = "done", !.err = TRUE]
          ELSE ing' = [ing EXCEPT !.pc = "repo", !.repos = repos, !.repo = 1]
    /\ UNCHANGED <<cache, rwmutex, snapshot, clock, refresher, readers, req,
                   dq, mq, ov>>

\* processDataDirectory, lines 339-352: the loop over the repositories
IngestNextRepo ==
    /\ ing.pc = "repo"
    /\ IF ing.repo > Len(ing.repos)
       THEN ing' = [ing EXCEPT !.pc = "done"]
       ELSE IF ~ing.repos[ing.repo].enabled
            THEN ing' = [ing EXCEPT !.repo = @ + 1]
            ELSE ing' = [ing EXCEPT !.pc = "walk", !.file = 1]
    /\ UNCHANGED <<cache, rwmutex, snapshot, clock, refresher, readers, req,
                   dq, mq, ov>>

\* processRepository and processFile, lines 356-392: one entry of the walk;
\* an error of processFile is returned by the callback and ends the walk
IngestWalk ==
    /\ ing.pc = "walk"
    /\ LET files == ing.repos[ing.repo].files
       IN  IF ing.file > Len(files)
           THEN ing' = [ing EXCEPT !.pc = "repo", !.repo = @ + 1]
           ELSE IF ~HasSuffix(ToLower(files[ing.file]), S_md)
                THEN ing' = [ing EXCEPT !.file = @ + 1]
                ELSE \E readable \in BOOLEAN, n \in 0..MaxChunks :
                        IF ~readable
                        THEN ing' = [ing EXCEPT !.pc = "repo", !.repo = @ + 1,
                                                !.outcome = "read_failed"]
                        ELSE ing' = [ing EXCEPT
                                !.pc = "chunk",
                                !.nipNumber =
                                    extractNipIdentifier(files[ing.file]),
                                !.nChunks = n,
                                !.i = 0]
    /\ UNCHANGED <<cache, rwmutex, snapshot, clock, refresher, readers, req,
                   dq, mq, ov>>

\* the variant that formats the id before it has incremented the counter
IngestMint_incrementLate ==
    /\ ing.pc = "chunk"
    /\ IF ing.i >= ing.nChunks
       THEN ing' = [ing EXCEPT !.pc = "walk", !.file = @ + 1]
       ELSE LET id == ChunkId(ing.nipNumber, ing.embeddingCounter)
            IN  ing' = [ing EXCEPT !.pc = "embed",
                                   !.embeddingCounter =
                                       IF ing.i = 0 THEN @ ELSE @ + 1,
                                   !.id = id,
                                   !.ids = Append(@, id)]
    /\ UNCHANGED <<cache, rwmutex, snapshot, clock, refresher, readers, req,
                   dq, mq, ov>>

\* processMarkdownChunks, lines 411-414: the next chunk gets its id
IngestMint ==
    /\ ing.pc = "chunk"
    /\ IF ing.i >= ing.nChunks
       THEN ing' = [ing EXCEPT !.pc = "walk", !.file = @ + 1]
       ELSE LET counter == ing.embeddingCounter + 1
                id == ChunkId(ing.nipNumber, counter)
            IN  ing' = [ing EXCEPT !.pc = "embed",
                                   !.embeddingCounter = counter,
                                   !.id = id,
                                   !.ids = Append(@, id)]
    /\ UNCHANGED <<cache, rwmutex, snapshot, clock, refresher, readers, req,
                   dq, mq, ov>>

\* processMarkdownChunks, lines 433-445: a failed embedding skips the save
IngestEmbed ==
    /\ ing.pc = "embed"
    /\ \E ok \in BOOLEAN :
          IF ok
          THEN ing' = [ing EXCEPT !.pc = "save"]
          ELSE ing' = [ing EXCEPT !.pc = "chunk", !.i = @ + 1,
                                  !.outcome = "embed_failed"]
    /\ UNCHANGED <<cache, rwmutex, snapshot, clock, refresher, readers, req,
                   dq, mq, ov>>

\* processMarkdownChunks, lines 448-452: a failed save is only reported
IngestSave ==
    /\ ing.pc = "save"
    /\ \E ok \in BOOLEAN :
          ing' = [ing EXCEPT !.pc = "chunk", !.i = @ + 1,
                             !.outcome = IF ok THEN "saved" ELSE "save_failed"]
    /\ UNCHANGED <<cache, rwmutex, snapshot, clock, refresher, readers, req,
                   dq, mq, ov>>

(***************************************************************************)
(* Specifications.  Init is the process after StartMCPServer: the cache    *)
(* empty (line 31), the mutex free, no request in progress.                *)
(***************************************************************************)
Init ==
    /\ cache = CacheInit
    /\ rwmutex = MutexInit
    /\ snapshot = <<CacheInit.events, CacheInit.lastUpdate>>
    /\ clock = 0
    /\ refresher = RefresherIdle
    /\ readers = [r \in Readers |-> ReaderIdle]
    /\ req = ReqIdle
    /\ dq = DqIdle
    /\ mq = MqIdle
    /\ ov = OvIdle
    /\ ing = IngIdle

\* search requests, served while the refresher replaces the cache
Next ==
    \/ RefreshCycle
    \/ SearchStart
    \/ SearchLookup
    \/ QueryOnlyRecheck
    \/ QueryOnlyConnect
    \/ QueryOnlySubscribe
    \/ QueryOnlyRecv
    \/ QueryOnlyStreamEnd
    \/ TargetedConnect
    \/ TargetedSubscribe
    \/ TargetedRecv
    \/ TargetedStreamEnd
    \/ SearchDone

Spec == Init /\ [][Next]_vars

\* the refresher and concurrent cache readers
NextCache ==
    \/ RefreshStart
    \/ RefreshDeadline
    \/ RefreshConnect
    \/ RefreshSubscribe
    \/ RefreshRecv
    \/ RefreshStreamEnd
    \/ RefreshUpdate
    \/ RefreshLock
    \/ RefreshWriteEvents
    \/ RefreshWriteTime
    \/ RefreshUnlock
    \/ \E r \in Readers : ReadRLock(r)
    \/ \E r \in Readers : ReadScan(r)
    \/ \E r \in Readers : ReadRUnlock(r)

SpecCache == Init /\ [][NextCache]_vars

\* the refresher alone.  Time passes, so the deadline of a running cycle
\* comes; a call made with the cycle's context returns; a stream whose
\* context has expired is closed; an uncontended Lock is acquired.  A relay
\* owes nothing: it need not send, end its stream or answer at all.
NextRefresh ==
    \/ RefreshStart
    \/ RefreshDeadline
    \/ RefreshConnect
    \/ RefreshSubscribe
    \/ RefreshRecv
    \/ RefreshStreamEnd
    \/ RefreshUpdate
    \/ RefreshLock
    \/ RefreshWriteEvents
    \/ RefreshWriteTime
    \/ RefreshUnlock

RefreshFairness ==
    /\ WF_vars(RefreshDeadline)
    /\ WF_vars(RefreshConnect)
    /\ WF_vars(RefreshSubscribe)
    /\ WF_vars(RefreshStreamEnd /\ refresher.expired)
    /\ WF_vars(RefreshUpdate)
    /\ WF_vars(RefreshLock)
    /\ WF_vars(RefreshWriteEvents)
    /\ WF_vars(RefreshWriteTime)
    /\ WF_vars(RefreshUnlock)

SpecRefreshFair == Init /\ [][NextRefresh]_vars /\ RefreshFairness

\* the steps of one search request
SearchStep ==
    \/ SearchStart
    \/ SearchLookup
    \/ QueryOnlyRecheck
    \/ QueryOnlyConnect
    \/ QueryOnlySubscribe
    \/ QueryOnlyRecv
    \/ QueryOnlyStreamEnd
    \/ TargetedConnect
    \/ TargetedSubscribe
    \/ TargetedRecv
    \/ TargetedStreamEnd
    \/ SearchDone

\* the three live operations, one at a time: searches on the cache the
\* server starts with (empty, so each of them goes to the relays), and
\* refresh cycles step by step
NextLive ==
    \/ (refresher.pc = "idle" /\ clock = 0 /\ SearchStep)
    \/ (req.pc = "idle" /\ NextRefresh)

SpecLive == Init /\ [][NextLive]_vars /\ RefreshFairness

\* the similarity query handler
NextQuery ==
    \/ QueryCall
    \/ QueryValidate
    \/ QueryEmbed
    \/ QuerySearch
    \/ QueryFormat
    \/ QueryDone

SpecQuery == Init /\ [][NextQuery]_vars

\* the query matcher
NextMatch ==
    \/ MatchCall
    \/ MatchReturn

SpecMatch == Init /\ [][NextMatch]_vars

\* the overlap extraction of the chunk builder
NextOverlap ==
    \/ OverlapCall
    \/ OverlapReturn

SpecOverlap == Init /\ [][NextOverlap]_vars

\* one ingestion run
NextIngest ==
    \/ IngestStart
    \/ IngestNextRepo
    \/ IngestWalk
    \/ IngestMint
    \/ IngestEmbed
    \/ IngestSave

SpecIngest == Init /\ [][NextIngest]_vars

(***************************************************************************)
(* Properties of the search handler (under Spec).                          *)
(***************************************************************************)
NoDuplicateIds(events) ==
    \A i, j \in DOMAIN events : i # j => events[i].id # events[j].id

\* the request passed the validation of line 321 and has returned
ValidDone == req.pc = "done" /\ req.err # NoFilterError

\* C1: a request whose first cache lookup finds at least limit matching
\* events returns exactly limit events and attempts no relay connection.
C1_CacheSufficientExactlyLimit ==
    (ValidDone /\ Len(req.cachedEvents) >= req.limit)
        => (Len(req.result) = req.limit /\ req.connects = 0)

\* C2: on the merge path (0 < k < limit cache matches), with any combination
\* of filters, the returned events have pairwise distinct ids.
C2_MergeNoDuplicateIds ==
    (ValidDone /\ req.branch = "merge") => NoDuplicateIds(req.result)

\* C5: a request with language, author and query all empty returns the
\* validation error, having read the cache and contacted relays zero times.
C5_NoFilterRejectedFirst ==
    (req.pc # "idle" /\ req.language = <<>> /\ req.rawAuthor = <<>>
                      /\ req.query = <<>>)
        => /\ req.pc = "done"
           /\ req.err = NoFilterError
           /\ req.result = <<>> /\ req.text = ""
           /\ req.cacheReads = 0
           /\ req.connects = 0

C5_Witness ==
    req.pc = "done" /\ req.err = NoFilterError /\ cache.events # <<>>

\* C6: a request that passed validation returns at most limit events,
\* whatever the limit and whichever branch was taken.
C6_ResultAtMostLimit ==
    ValidDone => Len(req.result) <= req.limit

\* C7: a request that passed validation never returns an error; an empty
\* result is the empty-result text; and a relay that fails does not end the
\* live search: it returns with fewer than the requested events only after
\* every relay of its list was tried.
C7_NeverAnErrorRelaysSkipped ==
    (req.pc = "done" /\ ~NoFilter(req.language, req.rawAuthor, req.query))
        => /\ req.err = ""
           /\ req.result = <<>> => req.text = NoSnippetsText
           /\ req.result # <<>> => req.text # NoSnippetsText
           /\ (req.connects > 0 /\ Len(req.events) < req.liveLimit)
                 => req.connects =
                       IF QueryOnly(req.language, req.author, req.query)
                       THEN Len(queryOnlyRelays) ELSE Len(searchRelays)

\* every relay of the targeted search accepted the connection and failed
\* the subscription (each is left open), the cache had no match
C7_Witness ==
    /\ req.pc = "done"
    /\ req.branch = "targeted"
    /\ req.open = Len(searchRelays)
    /\ req.err = ""
    /\ req.text = NoSnippetsText

C3_ReadersSeeWholeSnapshot ==
    \A r \in Readers :
       readers[r].pc \in {"scan", "runlock"}
          => <<cache.events, cache.lastUpdate>> = snapshot

\* a reader holds the read lock over a non-empty snapshot while the
\* refresher waits at Lock() with different events
C3_Witness ==
    \E r \in Readers :
       /\ readers[r].pc = "runlock"
       /\ refresher.pc = "lock"
       /\ cache.events # <<>>
       /\ refresher.newEvents # cache.events

\* C4: a refresh cycle that has collected no event changes neither the
\* cached events nor lastUpdate, in any of its steps.
C4_EmptyCycleKeepsCache ==
    [][refresher.newEvents = <<>> => cache' = cache]_vars

\* a second cycle ended with nothing collected and the first cycle's
\* snapshot is still there
C4_Witness ==
    /\ refresher.pc = "idle"
    /\ refresher.node = Len(cacheRelays)
    /\ refresher.newEvents = <<>>
    /\ clock = 2
    /\ cache.events # <<>>
    /\ cache.lastUpdate = 1

(***************************************************************************)
(* Properties of queryNostrDataHandler (under SpecQuery).                  *)
(***************************************************************************)
InvalidQueryArg == dq.query.kind # "string" \/ dq.query.value = <<>>

\* C9: the handler returns an error exactly when the query is missing or
\* empty (then neither collaborator was called), the embedding call failed
\* or the index call failed; an empty similarity list gives the text
\* 'No similar documents found' and no error.
C9_ErrorIffInvalidOrCollaboratorFailed ==
    dq.pc = "done" =>
       /\ dq.err # "" <=> (InvalidQueryArg \/ dq.embedFailed \/ dq.indexFailed)
       /\ InvalidQueryArg => (dq.embedCalls = 0 /\ dq.indexCalls = 0)
       /\ (dq.err = "" /\ dq.similarities = <<>>) => dq.text = NoSimilarText
       /\ (dq.err = "" /\ dq.similarities # <<>>) => dq.text # NoSimilarText
       /\ dq.err # "" => dq.text = ""

C9_Witness ==
    /\ dq.pc = "done"
    /\ dq.err = ""
    /\ dq.indexCalls = 1
    /\ dq.similarities = <<>>
    /\ dq.text = NoSimilarText

(***************************************************************************)
(* The reference of the query matcher (under SpecMatch), written from the  *)
(* positions of the characters and not with the operators of the model.    *)
(***************************************************************************)
\* sub occurs in s at some position, ignoring case
RefContainsFold(s, sub) ==
    \E off \in 0..(Len(s) - Len(sub)) :
       \A k \in 1..Len(sub) : ToLowerChar(s[off + k]) = ToLowerChar(sub[k])

\* needle occurs, ignoring case, in the content or in a tag value
RefInContentOrTag(ev, needle) ==
    \/ RefContainsFold(ev.content, needle)
    \/ \E t \in DOMAIN ev.tags :
          Len(ev.tags[t]) >= 2 /\ RefContainsFold(ev.tags[t][2], needle)

\* the whitespace-separated words of q
RefWords(q) ==
    { SubSeq(q, a, b) : <<a, b>> \in
        { p \in (1..Len(q)) \X (1..Len(q)) :
            /\ p[1] <= p[2]
            /\ \A k \in p[1]..p[2] : q[k] \notin Whitespace
            /\ (p[1] = 1 \/ q[p[1] - 1] \in Whitespace)
            /\ (p[2] = Len(q) \/ q[p[2] + 1] \in Whitespace) } }

\* q without its leading and trailing whitespace
RefTrimmed(q) ==
    IF \A k \in 1..Len(q) : q[k] \in Whitespace THEN <<>>
    ELSE SubSeq(q, CHOOSE a \in 1..Len(q) :
                      q[a] \notin Whitespace /\ \A k \in 1..(a - 1) : q[k] \in Whitespace,
                   CHOOSE b \in 1..Len(q) :
                      q[b] \notin Whitespace /\ \A k \in (b + 1)..Len(q) : q[k] \in Whitespace)

RefNonEmptyQueryMatches(ev, query) ==
    LET q == RefTrimmed(query)
    IN  \/ Len(q) >= 2 /\ Len(q) <= 10 /\ RefInContentOrTag(ev, q)
        \/ \E w \in RefWords(q) : Len(w) >= 2 /\ RefInContentOrTag(ev, w)

\* C10 as stated: true if the query is empty; otherwise true exactly if the
\* trimmed query of 2 to 10 characters, or one of its words of 2 or more
\* characters, occurs ignoring case in the content or a tag value.
C10_MatchesReference ==
    mq.pc = "done" =>
       mq.result = (IF mq.query = <<>> THEN TRUE
                    ELSE RefNonEmptyQueryMatches(mq.ev, mq.query))

\* C10 amended: a query of whitespace only matches too (line 594).
C10_MatchesReferenceBlankMatches ==
    mq.pc = "done" =>
       /\ mq.result = (IF \A k \in 1..Len(mq.query) : mq.query[k] \in Whitespace
                       THEN TRUE
                       ELSE RefNonEmptyQueryMatches(mq.ev, mq.query))
       /\ (mq.query = S_ndk /\ RefContainsFold(mq.ev.content, <<"N","D","K">>))
             => mq.result
       /\ (mq.query = LongWord /\ ~RefInContentOrTag(mq.ev, LongWord))
             => ~mq.result

\* the query 'ndk' was matched against the content 'uses NDK'
C10_Witness ==
    /\ mq.pc = "done"
    /\ mq.query = S_ndk
    /\ mq.ev = Ev1
    /\ mq.result

(***************************************************************************)
(* Properties of the chunk builder (under SpecOverlap).                    *)
(***************************************************************************)

\* C11: when the preceding content has more than 2 sentences and its last
\* sentence is shorter than 20 characters, extractOverlap returns the last
\* two sentences joined by ". " with a period appended, and for the content
\* "This is one. This is two. Ok." the result is exactly "This is two. Ok."
C11_ShortLastSentenceTakesTwo ==
    ov.pc = "done" =>
        LET sentences == RegexpSplit(ov.text)
            n == Len(sentences)
        IN  /\ (n > 2 /\ Len(sentences[n]) < 20) =>
                   ov.result = sentences[n - 1] \o <<".", " ">>
                                   \o sentences[n] \o <<".">>
            /\ ov.text = ExampleText => ov.result = ExampleOverlap

\* a sentence boundary: one of . ! ? with a whitespace character after it
HasSentenceBoundary(text) ==
    \E k \in 1..(Len(text) - 1) :
        text[k] \in {".", "!", "?"} /\ text[k + 1] \in {" ", "\t", "\n", "\r", "\f"}

\* C12: content with at most one sentence (no boundary of . ! or ? followed
\* by whitespace) is returned unchanged, with no period appended
C12_SingleSentenceUnchanged ==
    (ov.pc = "done" /\ ~HasSentenceBoundary(ov.text)) => ov.result = ov.text

C12_Witness ==
    /\ ov.pc = "done"
    /\ ~HasSentenceBoundary(ov.text)
    /\ Len(ov.text) > Len(S_19)
    /\ ov.text[Len(ov.text)] = "."
    /\ ov.result = ov.text

(***************************************************************************)
(* Properties of the ingestion run (under SpecIngest).                     *)
(***************************************************************************)

\* C13: within one run the ids minted across all chunks of all files are
\* pairwise distinct, and the counter has grown by exactly one per chunk
\* minted so far, whatever became of the chunk's embedding and save
C13_IdsPairwiseDistinct ==
    /\ \A a, b \in DOMAIN ing.ids : a # b => ing.ids[a] # ing.ids[b]
    /\ ing.embeddingCounter = Len(ing.ids)

C13_Witness ==
    /\ ing.pc = "done"
    /\ Len(ing.ids) >= 3
    /\ ing.outcome # "saved"
    /\ \E a, b \in DOMAIN ing.ids :
          a # b /\ HasPrefix(ing.ids[b], ing.ids[a])

(***************************************************************************)
(* The branches of the search handler and its two live searches (under     *)
(* Spec).                                                                  *)
(***************************************************************************)

\* the step is the first cache lookup of the request
FirstLookupStep == req.pc = "lookup" /\ req'.cacheReads = req.cacheReads + 1

\* the request is in the loop over the relays of searchRelayEvents
InTargetedLoop == req.pc \in {"tg_connect", "tg_subscribe", "tg_stream"}

\* the request is in the loop over the relays of searchByQueryOnly
InQueryOnlyLoop == req.pc \in {"qo_connect", "qo_subscribe", "qo_stream"}

\* C14: whenever the first cache lookup returns k matches, 0 < k < limit,
\* for every combination of filters (a query-only request included), the
\* handler performs a targeted live search of the nodes for limit - k
\* events and returns the cache matches followed by the live results,
\* truncated to limit.
C14_MergeRunsTargetedSearch ==
    /\ [][(FirstLookupStep /\ 0 < Len(req'.cachedEvents)
                           /\ Len(req'.cachedEvents) < req.limit)
            => /\ req'.pc = "tg_connect"
               /\ req'.node = 1
               /\ req'.liveLimit = req.limit - Len(req'.cachedEvents)]_vars
    /\ []((ValidDone /\ 0 < Len(req.cachedEvents)
                     /\ Len(req.cachedEvents) < req.limit)
            => /\ req.connects >= 1
               /\ LET combinedEvents == req.cachedEvents \o req.events
                  IN  req.result =
                         SubSeq(combinedEvents, 1,
                                IF Len(combinedEvents) > req.limit
                                THEN req.limit ELSE Len(combinedEvents)))

\* the event passes a filter of kind 1337 with the lowercased language as
\* its 'l' tag value and the author as its only author
CarriesFilter(ev, language, author) ==
    /\ language # <<>> =>
          \E t \in DOMAIN ev.tags :
             ev.tags[t][1] = S_l /\ ev.tags[t][2] = ToLower(language)
    /\ author # <<>> => ev.pubkey = author

\* C15: when the first cache lookup returns zero matches, a request with
\* query as its only filter runs the query-only live search, and any other
\* request runs the targeted live search with the full limit, on a
\* subscription filtered by the lowercased language tag and/or the author.
C15_EmptyLookupGoesLive ==
    /\ [][(FirstLookupStep /\ Len(req'.cachedEvents) = 0)
            => IF QueryOnly(req.language, req.author, req.query)
               THEN /\ req'.pc = "qo_recheck"
                    /\ req'.branch = "query_only"
                    /\ req'.liveLimit = req.limit
               ELSE /\ req'.pc = "tg_connect"
                    /\ req'.node = 1
                    /\ req'.branch = "targeted"
                    /\ req'.liveLimit = req.limit]_vars
    /\ [](req.branch = "targeted"
            => \A k \in DOMAIN req.events :
                  CarriesFilter(req.events[k], req.language, req.author))

\* C15 amended: the same for a limit of at least 1; with a limit of 0 the
\* zero matches already reach the limit and line 339 returns them.
C15_EmptyLookupBelowLimitGoesLive ==
    /\ [][(FirstLookupStep /\ Len(req'.cachedEvents) = 0 /\ req.limit >= 1)
            => IF QueryOnly(req.language, req.author, req.query)
               THEN /\ req'.pc = "qo_recheck"
                    /\ req'.branch = "query_only"
                    /\ req'.liveLimit = req.limit
               ELSE /\ req'.pc = "tg_connect"
                    /\ req'.node = 1
                    /\ req'.branch = "targeted"
                    /\ req'.liveLimit = req.limit]_vars
    /\ [][(FirstLookupStep /\ Len(req'.cachedEvents) = 0 /\ req.limit < 1)
            => (req'.pc = "done" /\ req'.result = <<>> /\ req'.connects = 0)]_vars
    /\ [](req.branch = "targeted"
            => \A k \in DOMAIN req.events :
                  CarriesFilter(req.events[k], req.language, req.author))

\* a targeted search for language "Go" and author PkA has received the
\* event tagged "go" after a cache lookup that found nothing
C15_Witness ==
    /\ req.pc = "done"
    /\ req.branch = "targeted"
    /\ req.language = S_Go
    /\ req.author = PkA
    /\ req.cachedEvents = <<>>
    /\ req.result = <<Ev1>>

\* C16: when the cache held no match at the first lookup and a refresh
\* installs matches before the re-check of searchByQueryOnly, the search
\* returns those cache matches and contacts no node; it goes to the nodes
\* only when the re-check finds nothing.
C16_RecheckServesFromCache ==
    [][(req.pc = "qo_recheck" /\ req.branch = "query_only"
                              /\ req'.cacheReads = req.cacheReads + 1)
        => LET matches == ScanCache(cache.events, <<>>, <<>>, req.query,
                                    req.limit)
           IN  IF Len(matches) > 0
               THEN /\ req'.pc = "done"
                    /\ req'.result = matches
                    /\ req'.connects = 0
               ELSE /\ req'.pc = "qo_connect"
                    /\ req'.node = 1
                    /\ req'.events = <<>>]_vars

\* the first lookup found nothing, the re-check found the event a refresh
\* installed in between, and no relay was contacted
C16_Witness ==
    /\ req.pc = "done"
    /\ req.branch = "query_only"
    /\ req.cachedEvents = <<>>
    /\ req.cacheReads = 2
    /\ req.connects = 0
    /\ req.result = <<Ev1>>

\* C17: the events collected by the live part of searchByQueryOnly have
\* pairwise distinct ids, each satisfies matchesQuery, and no relay is
\* contacted once limit events are collected.
C17_QueryOnlyLiveDistinctMatching ==
    (QueryOnly(req.language, req.author, req.query)
        /\ (InQueryOnlyLoop \/ (req.pc = "done" /\ req.connects > 0)))
    => /\ NoDuplicateIds(req.events)
       /\ \A k \in DOMAIN req.events : matchesQuery(req.events[k], req.query)
       /\ InQueryOnlyLoop => Len(req.events) < req.liveLimit
       /\ Len(req.events) <= req.liveLimit

\* the first relay delivered the limit and the second was not contacted
C17_Witness ==
    /\ req.pc = "done"
    /\ req.branch = "query_only"
    /\ req.connects = 1
    /\ req.events = <<Ev1>>
    /\ req.liveLimit = 1

\* C18: the events collected by a targeted live search have pairwise
\* distinct ids, also when several relays deliver the same event.
C18_TargetedLiveNoDuplicateIds ==
    (req.branch \in {"targeted", "merge"}
        /\ ~QueryOnly(req.language, req.author, req.query))
    => NoDuplicateIds(req.events)

\* C19: a targeted live search contacts the relays one at a time in the
\* order of the list, a relay only after all relays before it were tried,
\* and none once the collected events have reached limit.
C19_TargetedInOrderUntilLimit ==
    /\ InTargetedLoop =>
          /\ req.node \in 1..Len(searchRelays)
          /\ req.node = req.connects + (IF req.pc = "tg_connect" THEN 1 ELSE 0)
          /\ Len(req.events) < req.liveLimit
    /\ (req.pc = "done" /\ req.branch \in {"targeted", "merge"}
                        /\ ~QueryOnly(req.language, req.author, req.query))
          => /\ req.connects \in 1..Len(searchRelays)
             /\ req.connects < Len(searchRelays)
                   => Len(req.events) >= req.liveLimit

\* the second relay brought the search to its limit of 2 and the other
\* four relays were not contacted
C19_Witness ==
    /\ req.pc = "done"
    /\ req.branch = "targeted"
    /\ req.connects = 2
    /\ req.liveLimit = 2
    /\ Len(req.events) = 2

(***************************************************************************)
(* Relay failures in a refresh cycle (under SpecCache).                    *)
(***************************************************************************)

\* the step in which the connect or the subscribe of the current relay fails
RefreshFailStep ==
    /\ refresher.pc \in {"connect", "subscribe"}
    /\ (refresher'.node # refresher.node \/ refresher'.pc = "update")

\* C20: in a refresh cycle a relay whose connect or subscribe fails is
\* skipped and the cycle goes on: every later relay of the list is still
\* attempted, and the events collected from the other relays are installed.
C20_FailedRelaySkippedCycleGoesOn ==
    /\ [][RefreshFailStep
            => /\ refresher'.newEvents = refresher.newEvents
               /\ IF refresher.node < Len(cacheRelays)
                  THEN /\ refresher'.pc = "connect"
                       /\ refresher'.node = refresher.node + 1
                  ELSE refresher'.pc = "update"]_vars
    /\ [][(refresher.pc = "update" /\ refresher.newEvents # <<>>
                                   /\ refresher' # refresher)
            => refresher'.pc = "lock"]_vars
    /\ [](refresher.pc \in {"update", "lock", "write_events", "write_time",
                            "unlock"}
            => refresher.node = Len(cacheRelays))
    /\ [](refresher.pc = "unlock"
            => (cache.events = refresher.newEvents
                   /\ cache.lastUpdate = clock))

\* a cycle in which a relay failed has ended with the events of another
\* relay installed in the cache
C20_Witness ==
    /\ refresher.pc = "idle"
    /\ refresher.skipped
    /\ ~refresher.expired
    /\ refresher.newEvents # <<>>
    /\ cache.events = refresher.newEvents
    /\ cache.lastUpdate = clock

(***************************************************************************)
(* Termination of a refresh cycle (under SpecRefreshFair).                 *)
(***************************************************************************)

\* C21: every refresh cycle ends, also when a connected relay never ends
\* its event stream, so the refresher is free for the next tick; once the
\* cycle's deadline has passed no relay is connected or subscribed to.
C21_RefreshCycleTerminates ==
    /\ (refresher.pc # "idle") ~> (refresher.pc = "idle")
    /\ [][refresher.expired
            => (refresher'.pc = refresher.pc
                   \/ refresher'.pc \notin {"subscribe", "stream"})]_vars

\* a cycle whose deadline passed has ended with every relay gone through
C21_Witness ==
    /\ refresher.pc = "idle"
    /\ refresher.expired
    /\ refresher.node = Len(cacheRelays)
    /\ refresher.open = {}
    /\ clock >= 1

(***************************************************************************)
(* Deadlines in the live operations (under SpecLive).                      *)
(***************************************************************************)

IsPrefix(s, t) == Len(s) <= Len(t) /\ SubSeq(t, 1, Len(s)) = s

\* the stream of the refresh cycle's current relay ends after the deadline
ExpiredStreamEnds ==
    refresher.pc = "stream" /\ refresher.expired /\ refresher'.pc # "stream"

\* what has been collected stays, and the loop is at the next relay
RefreshMovesOn ==
    /\ refresher'.newEvents = refresher.newEvents
    /\ IF refresher.node < Len(cacheRelays)
       THEN refresher'.pc = "connect" /\ refresher'.node = refresher.node + 1
       ELSE refresher'.pc = "update"

\* whenever a relay can be connected or subscribed to, it is in the end
RelaysAnswer ==
    /\ SF_vars(RefreshConnect /\ refresher'.pc = "subscribe")
    /\ SF_vars(RefreshSubscribe /\ refresher'.pc = "stream")

\* C22: in every live operation, when the deadline expires while a relay's
\* events are streamed, the events collected are kept and the next relay
\* of the list is then attempted: connected to and queried.  Here for the
\* refresh cycle, with relays that answer: the next relay is queried in
\* the same cycle (the clock counts the cycles).
C22_DeadlineNextRelayQueried ==
    /\ [][ExpiredStreamEnds => RefreshMovesOn]_vars
    /\ \A n \in 1..(Len(cacheRelays) - 1), c \in 1..MaxCycles :
          RelaysAnswer =>
             ((/\ refresher.pc = "stream" /\ refresher.node = n
               /\ refresher.expired /\ clock = c)
                 ~> (/\ refresher.pc = "stream" /\ refresher.node = n + 1
                     /\ clock = c))

\* the stream of a search's current relay ends
SearchStreamEnds(stream) == req.pc = stream /\ req'.pc # stream

\* what has been collected stays, and unless the limit is reached or the
\* list is at its end the loop is at the next relay
SearchMovesOn(relays, connect) ==
    /\ IsPrefix(req.events, req'.events)
    /\ (Len(req'.events) < req.liveLimit /\ req.node < Len(relays))
          => (req'.pc = connect /\ req'.node = req.node + 1)

\* C22 amended: the events collected are kept and the loop moves on to the
\* next relay.  A search, whose expired deadline is the relay's own, can
\* connect to it; a refresh cycle, whose deadline is the cycle's, cannot:
\* every later connect fails and no later relay is queried.
C22_DeadlineKeepsEventsMovesOn ==
    /\ [][ExpiredStreamEnds => RefreshMovesOn]_vars
    /\ [][(refresher.expired /\ refresher.pc = "connect"
                             /\ refresher' # refresher)
            => /\ refresher'.pc \in {"connect", "update"}
               /\ refresher'.newEvents = refresher.newEvents
               /\ refresher'.open = {}]_vars
    /\ [][SearchStreamEnds("tg_stream")
            => SearchMovesOn(searchRelays, "tg_connect")]_vars
    /\ [][SearchStreamEnds("qo_stream")
            => SearchMovesOn(queryOnlyRelays, "qo_connect")]_vars
    /\ [](req.pc = "tg_connect"
            => ENABLED (TargetedConnect /\ req'.pc = "tg_subscribe"))
    /\ [](req.pc = "qo_connect"
            => ENABLED (QueryOnlyConnect /\ req'.pc = "qo_subscribe"))

\* the deadline of the cycle has passed while the second relay streams,
\* with an event collected and two relays still to come
C22_Witness ==
    /\ refresher.pc = "stream"
    /\ refresher.expired
    /\ refresher.node = 2
    /\ refresher.open = {2}
    /\ refresher.newEvents # <<>>

(***************************************************************************)
(* The lock and the network (under SpecCache).                             *)
(***************************************************************************)

\* the refresher is in a connect, a subscribe or a receive
RefresherOnNetwork == refresher.pc \in {"connect", "subscribe", "stream"}

\* C23: no connect, subscribe or receive happens while the cache lock is
\* held: the refresher holds the write lock only for the swap, a reader
\* holds the read lock only for its scan, and so a relay that stalls
\* blocks neither a reader nor the writer.
C23_NoNetworkUnderLock ==
    /\ rwmutex.writer
          <=> refresher.pc \in {"write_events", "write_time", "unlock"}
    /\ \A r \in Readers :
          r \in rwmutex.readers <=> readers[r].pc \in {"scan", "runlock"}
    /\ RefresherOnNetwork =>
          /\ ~rwmutex.writer
          /\ \A r \in Readers : readers[r].pc = "idle" => ENABLED ReadRLock(r)
    /\ (refresher.pc = "lock" /\ rwmutex.readers = {}) => ENABLED RefreshLock

\* a reader scans the installed snapshot while the refresher is in the
\* event stream of a relay
C23_Witness ==
    /\ refresher.pc = "stream"
    /\ cache.events # <<>>
    /\ \E r \in Readers : readers[r].pc = "scan" /\ r \in rwmutex.readers

(***************************************************************************)
(* The cache scan against its description (under Spec).                    *)
(***************************************************************************)

\* the event satisfies every provided filter at once
SatisfiesAllFilters(ev, language, author, query) ==
    /\ (language # <<>>) =>
          \E t \in DOMAIN ev.tags :
             /\ Len(ev.tags[t]) >= 2
             /\ ev.tags[t][1] = S_l
             /\ ToLower(ev.tags[t][2]) = ToLower(language)
    /\ (author # <<>>) => ev.pubkey = author
    /\ (query # <<>>) => matchesQuery(ev, query)

\* the cached events that satisfy the filters of the request, in cache order
CacheMatches ==
    SelectSeq(cache.events,
              LAMBDA ev : SatisfiesAllFilters(ev, req.language, req.author,
                                              req.query))

FirstOf(events, n) == SubSeq(events, 1, IF n < Len(events) THEN n ELSE Len(events))

\* C24: searchCachedEvents returns exactly the first min(limit, m) events,
\* in cache order, of the m cached events that satisfy all provided filters
\* at once; an event failing a provided filter is never returned.
C24_ScanReturnsFirstMatches ==
    [][FirstLookupStep => req'.cachedEvents = FirstOf(CacheMatches, req.limit)]_vars

\* the same for the limits the scan's own test can honour
C24_ScanReturnsFirstMatchesFromOne ==
    [][(FirstLookupStep /\ req.limit >= 1)
          => req'.cachedEvents = FirstOf(CacheMatches, req.limit)]_vars

(***************************************************************************)
(* The tag values the matcher reads (under SpecMatch).                     *)
(***************************************************************************)

\* the call was made with a query whose normalized form has 2 to 10
\* characters
DirectQueryDone ==
    /\ mq.pc = "done"
    /\ Len(RefTrimmed(mq.query)) >= 2
    /\ Len(RefTrimmed(mq.query)) <= 10

\* needle occurs, ignoring case, in some value of a tag: the elements of
\* the tag after its name
RefInAnyTagValue(ev, needle) ==
    \E t \in DOMAIN ev.tags :
       \E v \in 2..Len(ev.tags[t]) : RefContainsFold(ev.tags[t][v], needle)

\* needle occurs, ignoring case, in the first value of a tag
RefInFirstTagValue(ev, needle) ==
    \E t \in DOMAIN ev.tags :
       Len(ev.tags[t]) >= 2 /\ RefContainsFold(ev.tags[t][2], needle)

\* C25: for a normalized query of 2 to 10 characters, matchesQuery returns
\* true whenever the query is a case-insensitive substring of any value of
\* any tag, the second and later values of a tag included.
C25_AnyTagValueMatches ==
    (DirectQueryDone /\ RefInAnyTagValue(mq.ev, RefTrimmed(mq.query)))
        => mq.result

\* C25 amended: the first value of a tag is the only one read: a query of
\* 2 to 10 characters found there matches, and one without whitespace
\* found neither there nor in the content does not, whatever the later
\* values of the tags are.
C25_FirstTagValueMatches ==
    /\ (DirectQueryDone /\ RefInFirstTagValue(mq.ev, RefTrimmed(mq.query)))
          => mq.result
    /\ (/\ DirectQueryDone
        /\ \A k \in DOMAIN RefTrimmed(mq.query) :
               RefTrimmed(mq.query)[k] \notin Whitespace
        /\ ~RefInContentOrTag(mq.ev, RefTrimmed(mq.query)))
          => ~mq.result

\* the query 'Dn' was matched against the first value 'DN' of a tag of an
\* event whose content does not hold it
C25_Witness ==
    /\ mq.pc = "done"
    /\ mq.query = <<"D", "n">>
    /\ mq.ev.id = "m3"
    /\ mq.result

\* the query 'ndk' was run against the event that holds it only as the
\* second value of a tag
C25_LaterValueCase ==
    /\ mq.pc = "done"
    /\ mq.query = S_ndk
    /\ mq.ev.id = "m0"
    /\ ~mq.result

(***************************************************************************)
(* Failures during ingestion (under SpecIngest).                           *)
(***************************************************************************)

\* a failed embedding or save goes on with the next chunk of the file, and
\* the loop over the chunks ends only after the last chunk
ChunksAllProcessed ==
    /\ (ing.pc \in {"embed", "save"} /\ ing'.pc = "chunk")
          => (ing'.i = ing.i + 1 /\ ing'.file = ing.file /\ ing'.repo = ing.repo)
    /\ (ing.pc = "chunk" /\ ing'.pc # "chunk")
          => (ing'.pc = "embed" \/ (ing'.pc = "walk" /\ ing.i >= ing.nChunks))

\* the walk of a repository ends only after its last file
FilesAllProcessed ==
    (ing.pc = "walk" /\ ing'.pc # "walk")
        => \/ ing'.pc = "chunk"
           \/ ing'.pc = "repo" /\ ing.file > Len(ing.repos[ing.repo].files)

\* the run ends only after the last repository
ReposAllProcessed ==
    /\ (ing.pc = "repo" /\ ing'.pc = "done") => ing.repo > Len(ing.repos)
    /\ (ing.pc = "walk" /\ ing'.pc = "repo") => ing'.repo = ing.repo + 1

\* C26: a failure local to one item (an unreadable markdown file, a failed
\* embedding call, a failed store write) never aborts the batch: the
\* remaining chunks of the file, the remaining files of the repository and
\* the remaining enabled repositories are still processed.
C26_ItemFailureNeverAborts ==
    [][ChunksAllProcessed /\ FilesAllProcessed /\ ReposAllProcessed]_vars

\* what holds of the code: chunks and repositories, not files
C26_ChunksAndReposGoOn ==
    [][ChunksAllProcessed /\ ReposAllProcessed]_vars

(***************************************************************************)
(* Connections left open (under Spec; the refresher under SpecCache).      *)
(***************************************************************************)

\* C27: every connection a live operation opened is closed before the
\* operation returns, on every path, the path where the subscribe call
\* fails included.
C27_ConnectionsClosedOnReturn ==
    /\ req.pc = "done" => req.open = 0
    /\ refresher.pc = "idle" => refresher.open = {}

\* what holds of the code: the refresh cycle and the query-only search
\* close what they opened
C27_RefreshAndQueryOnlyClose ==
    /\ (req.pc = "done" /\ QueryOnly(req.language, req.author, req.query))
          => req.open = 0
    /\ refresher.pc = "idle" => refresher.open = {}

(***************************************************************************)
(* The contents of an installed snapshot (under SpecCache).                *)
(***************************************************************************)

\* C28: every snapshot a refresh cycle installed holds each event id at
\* most once, even when more than one relay of the cycle delivered the
\* same event.
C28_SnapshotNoDuplicateIds == NoDuplicateIds(cache.events)

(***************************************************************************)
(* Who writes the cache (under Spec).                                      *)
(***************************************************************************)

\* C29: no search request modifies the cache, in any branch and whatever
\* refresh cycles run between its steps: the events and lastUpdate are at
\* every moment the pair the last refresh cycle installed, and the append
\* of the merge path leaves the cache's own list as it was.
C29_OnlyRefreshWritesCache ==
    /\ cache.events = snapshot[1]
    /\ cache.lastUpdate = snapshot[2]

\* a merge returned cache matches followed by a live event while the cache
\* held an event after its matches, where an in-place append would write
C29_Witness ==
    /\ req.pc = "done"
    /\ req.branch = "merge"
    /\ req.events # <<>>
    /\ Len(cache.events) > Len(req.cachedEvents)
    /\ req.result = req.cachedEvents \o req.events
    /\ cache.events = <<Ev1, Ev2>>

(***************************************************************************)
(* The cache over its lifetime (under SpecCache).                          *)
(***************************************************************************)

\* C30: the cache starts empty; once it holds an event it is never empty
\* again, whatever cycles follow; and lastUpdate changes only together with
\* a replacement of the events: in the critical section that has just
\* written the collected events.
C30_NeverEmptiedTimeWithEvents ==
    /\ (cache.events = <<>> /\ cache.lastUpdate = 0)
    /\ [][cache.events # <<>> => cache'.events # <<>>]_vars
    /\ [][cache'.lastUpdate # cache.lastUpdate
            => /\ rwmutex.writer /\ rwmutex'.writer
               /\ cache.events = refresher.newEvents
               /\ cache'.events = cache.events]_vars
    /\ [][cache'.events # cache.events
            => /\ rwmutex.writer /\ rwmutex'.writer
               /\ refresher'.pc = "write_time"]_vars

\* after a cycle that installed events, a cycle in which a relay failed
\* and nothing was collected has ended, and the events are still there
C30_Witness ==
    /\ refresher.pc = "idle"
    /\ refresher.skipped
    /\ refresher.newEvents = <<>>
    /\ clock = 2
    /\ cache.events # <<>>
    /\ cache.lastUpdate = 1

====
